---- MODULE Spec2Model ----
(***************************************************************************)
(* Model of dbcrust's Django query collector                               *)
(* (src/python/dbcrust/django/query_collector.py).                         *)
(*                                                                         *)
(* A text (Python str) is a sequence of one-character strings.  The hook   *)
(* QueryCollector.__call__ is split at the call of the wrapped executor:   *)
(* HookCall runs lines 80-106 up to the moment the executor has been       *)
(* entered, ExecFinish is the executor coming back (lines 106-116).        *)
(* Between the two, other threads' hook invocations and the session        *)
(* control operations may run; a wrapped execution that re-enters the hook *)
(* is the interleaving in which the inner invocation finishes first.       *)
(***************************************************************************)
EXTENDS Integers, Sequences, FiniteSets, TLC

(* ------------------------------ bounds -------------------------------- *)

\* An active hook invocation begins only while the clock is below the bound
\* (and, for one that fails before it reads the clock, while hookCount is):
\* MaxClock for the host's threads, MaxSessionClock for one session thread.
MaxClock == 3

MaxSessionClock == 6

\* The bound of the clock for one analysis window whose log is aggregated.
MaxWindowClock == 7

\* The bound of the clock for one analysis window of TextSpec.
MaxTextClock == 4

\* The threads of the host that issue statements.
Threads == {"t1", "t2"}

(* ------------------------------- texts -------------------------------- *)

\* Characters str.strip() and the regex class \s treat as whitespace.
Whitespace == {" ", "\t", "\n", "\r", "\f"}

LowerChars == <<"a", "b", "c", "d", "e", "f", "g", "h", "i", "j", "k", "l", "m", "n", "o", "p", "q", "r", "s", "t", "u", "v", "w", "x", "y", "z">>

UpperChars == <<"A", "B", "C", "D", "E", "F", "G", "H", "I", "J", "K", "L", "M", "N", "O", "P", "Q", "R", "S", "T", "U", "V", "W", "X", "Y", "Z">>

\* str.upper() on one character.
UpperChar(c) ==
    IF \E i \in 1..26 : LowerChars[i] = c
    THEN UpperChars[CHOOSE i \in 1..26 : LowerChars[i] = c]
    ELSE c

\* str.lower() on one character.
LowerChar(c) ==
    IF \E i \in 1..26 : UpperChars[i] = c
    THEN LowerChars[CHOOSE i \in 1..26 : UpperChars[i] = c]
    ELSE c

\* str.upper()
upper(s) == [i \in 1..Len(s) |-> UpperChar(s[i])]

\* str.lower()
lower(s) == [i \in 1..Len(s) |-> LowerChar(s[i])]

RECURSIVE lstrip(_, _)
\* str.lstrip(chars)
lstrip(s, cs) ==
    IF s # <<>> /\ Head(s) \in cs THEN lstrip(Tail(s), cs) ELSE s

RECURSIVE rstrip(_, _)
\* str.rstrip(chars)
rstrip(s, cs) ==
    IF s # <<>> /\ s[Len(s)] \in cs THEN rstrip(SubSeq(s, 1, Len(s) - 1), cs) ELSE s

\* str.strip(chars); str.strip() is strip(s, Whitespace)
strip(s, cs) == rstrip(lstrip(s, cs), cs)

\* str.startswith(prefix)
startswith(s, p) == Len(s) >= Len(p) /\ SubSeq(s, 1, Len(p)) = p

\* The keywords of the source, as texts.
KW_SELECT == <<"S", "E", "L", "E", "C", "T">>

KW_INSERT == <<"I", "N", "S", "E", "R", "T">>

KW_UPDATE == <<"U", "P", "D", "A", "T", "E">>

KW_DELETE == <<"D", "E", "L", "E", "T", "E">>

KW_CREATE == <<"C", "R", "E", "A", "T", "E">>

KW_DROP == <<"D", "R", "O", "P">>

KW_ALTER == <<"A", "L", "T", "E", "R">>

KW_FROM == <<"F", "R", "O", "M">>

KW_JOIN == <<"J", "O", "I", "N">>

KW_INTO == <<"I", "N", "T", "O">>

(* ------------------- classification and extraction -------------------- *)

\* QueryCollector._extract_query_type on a str.
_extract_query_type(sql) ==
    LET u == upper(strip(sql, Whitespace)) IN
    IF startswith(u, KW_SELECT) THEN "SELECT"
    ELSE IF startswith(u, KW_INSERT) THEN "INSERT"
    ELSE IF startswith(u, KW_UPDATE) THEN "UPDATE"
    ELSE IF startswith(u, KW_DELETE) THEN "DELETE"
    ELSE IF startswith(u, KW_CREATE) THEN "CREATE"
    ELSE IF startswith(u, KW_DROP) THEN "DROP"
    ELSE IF startswith(u, KW_ALTER) THEN "ALTER"
    ELSE "OTHER"

RECURSIVE RunEnd(_, _, _)
\* The first position j >= i of s that holds a character outside cs
\* (Len(s) + 1 if there is none): where a greedy run of cs characters ends.
RunEnd(s, i, cs) ==
    IF i <= Len(s) /\ s[i] \in cs THEN RunEnd(s, i + 1, cs) ELSE i

RECURSIVE TokenEnd(_, _, _)
\* The first position j >= i of s that holds a character of stop
\* (Len(s) + 1 if there is none): where a greedy [^stop]+ group ends.
TokenEnd(s, i, stop) ==
    IF i <= Len(s) /\ s[i] \notin stop THEN TokenEnd(s, i + 1, stop) ELSE i

RECURSIVE AfterKeywords(_, _, _)
\* Matching  KW1\s+KW2\s+ ...  at position i of s: the position after the
\* last whitespace run, or 0 when the keywords do not match there.
AfterKeywords(s, i, kws) ==
    IF kws = <<>> THEN i
    ELSE LET kw == Head(kws)
             j  == i + Len(kw)
         IN  IF j <= Len(s) /\ SubSeq(s, i, j - 1) = kw /\ s[j] \in Whitespace
             THEN AfterKeywords(s, RunEnd(s, j, Whitespace), Tail(kws))
             ELSE 0

\* Whether  KW1\s+...KWn\s+([^\s excl]+)  matches at position i of s.
\* After the greedy \s+ the next character is no whitespace; backtracking
\* the run only exposes a whitespace character, which the group rejects.
MatchesAt(s, i, kws, excl) ==
    LET g == AfterKeywords(s, i, kws) IN
    g # 0 /\ g <= Len(s) /\ s[g] \notin (Whitespace \cup excl)

\* The group and the end of the match at position i (MatchesAt holds).
MatchAt(s, i, kws, excl) ==
    LET g == AfterKeywords(s, i, kws)
        e == TokenEnd(s, g, Whitespace \cup excl)
    IN  [group |-> SubSeq(s, g, e - 1), end |-> e]

\* re.search: the positions >= from at which the pattern matches.
MatchPositions(s, from, kws, excl) ==
    {i \in from..Len(s) : MatchesAt(s, i, kws, excl)}

Min(S) == CHOOSE x \in S : \A y \in S : x <= y

\* re.search(pattern, s): the group of the leftmost match, as a sequence of
\* zero or one groups.
re_search(s, kws, excl) ==
    LET P == MatchPositions(s, 1, kws, excl) IN
    IF P = {} THEN <<>> ELSE <<MatchAt(s, Min(P), kws, excl).group>>

RECURSIVE re_findall_from(_, _, _, _)
\* re.findall(pattern, s): the groups of the non-overlapping matches, left
\* to right, the scan resuming where the previous match ended.
re_findall_from(s, from, kws, excl) ==
    LET P == MatchPositions(s, from, kws, excl) IN
    IF P = {} THEN <<>>
    ELSE LET m == MatchAt(s, Min(P), kws, excl)
         IN  <<m.group>> \o re_findall_from(s, m.end, kws, excl)

re_findall(s, kws, excl) == re_findall_from(s, 1, kws, excl)

Quote1 == {"\""}

Quote2 == {"'"}

\* match.strip('"').strip("'")
StripQuotes(tok) == strip(strip(tok, Quote1), Quote2)

RECURSIVE Candidates(_, _)
\* One clause's loop over its matches: strip the quotes, keep the non-empty
\* candidates (and, where skipParen, those that do not start with "("),
\* lowercased.
Candidates(groups, skipParen) ==
    IF groups = <<>> THEN <<>>
    ELSE LET table == StripQuotes(Head(groups))
             keep  == table # <<>> /\ ~(skipParen /\ startswith(table, <<"(">>))
         IN  (IF keep THEN <<lower(table)>> ELSE <<>>)
                 \o Candidates(Tail(groups), skipParen)

RECURSIVE Unique(_, _)
\* "Remove duplicates while preserving order": seen is the set of tables
\* already appended.
Unique(tables, seen) ==
    IF tables = <<>> THEN <<>>
    ELSE IF Head(tables) \in seen THEN Unique(Tail(tables), seen)
    ELSE <<Head(tables)>> \o Unique(Tail(tables), seen \cup {Head(tables)})

\* QueryCollector._extract_table_names on a str.
_extract_table_names(sql) ==
    LET u      == upper(sql)
        tables ==
            Candidates(re_search(u, <<KW_FROM>>, {","}), TRUE)
         \o Candidates(re_findall(u, <<KW_JOIN>>, {}), FALSE)
         \o Candidates(re_search(u, <<KW_INSERT, KW_INTO>>, {"("}), FALSE)
         \o Candidates(re_search(u, <<KW_UPDATE>>, {}), FALSE)
         \o Candidates(re_search(u, <<KW_DELETE, KW_FROM>>, {}), FALSE)
    IN  Unique(tables, {})

(* --------------------------- normalization ---------------------------- *)

RECURSIVE Collapse(_)
\* " ".join(words) for the words of a text without leading or trailing
\* whitespace: every whitespace run becomes one space.
Collapse(s) ==
    IF s = <<>> THEN <<>>
    ELSE IF Head(s) \in Whitespace
         THEN <<" ">> \o Collapse(lstrip(s, Whitespace))
         ELSE <<Head(s)>> \o Collapse(Tail(s))

\* Line 45: " ".join(self.sql.split())
SplitJoin(s) == Collapse(strip(s, Whitespace))

\* The characters the regex class \d matches.
Digits == {"0", "1", "2", "3", "4", "5", "6", "7", "8", "9"}

\* Whether s holds character c at position i.
CharAt(s, i, c) == i <= Len(s) /\ s[i] = c

\* Line 49: where a match of  IN\s*\([^)]+\)  (ignoring case) that starts
\* at position i of s ends (the position after it), or 0 when there is none.
\* The greedy [^)]+ stops at the first ")" or at the end of s.
InListEnd(s, i) ==
    IF i + 1 <= Len(s) /\ UpperChar(s[i]) = "I" /\ UpperChar(s[i + 1]) = "N"
    THEN LET j == RunEnd(s, i + 2, Whitespace)
             k == TokenEnd(s, j + 1, {")"})
         IN  IF CharAt(s, j, "(") /\ k > j + 1 /\ k <= Len(s) THEN k + 1 ELSE 0
    ELSE 0

\* Line 51: the same for  =\s*%s
EqParamEnd(s, i) ==
    IF CharAt(s, i, "=")
    THEN LET j == RunEnd(s, i + 1, Whitespace)
         IN  IF CharAt(s, j, "%") /\ CharAt(s, j + 1, "s") THEN j + 2 ELSE 0
    ELSE 0

\* Line 52: the same for  =\s*\d+
EqIntEnd(s, i) ==
    IF CharAt(s, i, "=")
    THEN LET j == RunEnd(s, i + 1, Whitespace)
             k == RunEnd(s, j, Digits)
         IN  IF k > j THEN k ELSE 0
    ELSE 0

\* Line 53: the same for  =\s*'[^']+'
EqStrEnd(s, i) ==
    IF CharAt(s, i, "=")
    THEN LET j == RunEnd(s, i + 1, Whitespace)
             k == TokenEnd(s, j + 1, {"'"})
         IN  IF CharAt(s, j, "'") /\ k > j + 1 /\ k <= Len(s) THEN k + 1 ELSE 0
    ELSE 0

\* Where a match of pattern pat that starts at position i of s ends.
PatternEnd(pat, s, i) ==
    CASE pat = "in_list"  -> InListEnd(s, i)
      [] pat = "eq_param" -> EqParamEnd(s, i)
      [] pat = "eq_int"   -> EqIntEnd(s, i)
      [] pat = "eq_str"   -> EqStrEnd(s, i)

RECURSIVE re_sub_from(_, _, _, _)
\* re.sub(pattern, repl, s) from position i on: the matches, leftmost first
\* and not overlapping, are replaced by repl.
re_sub_from(pat, repl, s, i) ==
    IF i > Len(s) THEN <<>>
    ELSE LET e == PatternEnd(pat, s, i) IN
         IF e # 0 THEN repl \o re_sub_from(pat, repl, s, e)
         ELSE <<s[i]>> \o re_sub_from(pat, repl, s, i + 1)

re_sub(pat, repl, s) == re_sub_from(pat, repl, s, 1)

\* CapturedQuery.get_base_query, on the sql of the record.
get_base_query(sql) ==
    LET n0 == SplitJoin(sql)
        n1 == re_sub("in_list", <<"I", "N", " ", "(", "?", ")">>, n0)
        n2 == re_sub("eq_param", <<"=", " ", "?">>, n1)
        n3 == re_sub("eq_int", <<"=", " ", "?">>, n2)
        n4 == re_sub("eq_str", <<"=", " ", "?">>, n3)
    IN  n4

(* ------------------------------ inputs -------------------------------- *)

\* A value handed to the hook as sql: a str with its characters, or an
\* object that is no str (None, a driver's composed-SQL object).
Str(chars) == [kind |-> "str", chars |-> chars]

NotAStr == [kind |-> "object", chars |-> <<>>]

IsStr(sql) == sql.kind = "str"

SqlSelectT == Str(<<"S", "E", "L", "E", "C", "T", " ", "*", " ", "F", "R", "O", "M", " ", "t">>)

SqlSelectTPadded == Str(<<" ", "S", "E", "L", "E", "C", "T", " ", "*", " ", "F", "R", "O", "M", " ", "t", "\n">>)

SqlSelectU == Str(<<"S", "E", "L", "E", "C", "T", " ", "*", " ", "F", "R", "O", "M", " ", "u">>)

\* The arguments of the hook invocations the host's threads make.  params
\* are opaque values, written as Python writes them; context is opaque.
HookArgs ==
    { [sql |-> SqlSelectT,       params |-> "None", many |-> FALSE, context |-> "ctx1"],
      [sql |-> SqlSelectTPadded, params |-> "(1,)", many |-> TRUE,  context |-> "ctx2"],
      [sql |-> NotAStr,          params |-> "None", many |-> FALSE, context |-> "ctx1"] }

\* The arguments of the hook invocations of one session thread: statements
\* with equal text and different parameters, with equal trimmed text and
\* with texts one character apart.
SessionArgs ==
    { [sql |-> SqlSelectT,       params |-> "(1,)", many |-> FALSE, context |-> "ctx1"],
      [sql |-> SqlSelectT,       params |-> "(2,)", many |-> FALSE, context |-> "ctx1"],
      [sql |-> SqlSelectTPadded, params |-> "None", many |-> FALSE, context |-> "ctx1"],
      [sql |-> SqlSelectU,       params |-> "[]",   many |-> TRUE,  context |-> "ctx2"] }

SqlSelectA1 == Str(<<"S", "E", "L", "E", "C", "T", " ", "*", " ", "F", "R", "O", "M", " ", "a", " ", "W", "H", "E", "R", "E", " ", "i", "d", " ", "=", " ", "1">>)

SqlSelectA2 == Str(<<"S", "E", "L", "E", "C", "T", " ", "*", " ", "F", "R", "O", "M", " ", "a", " ", "W", "H", "E", "R", "E", " ", "i", "d", " ", "=", " ", "2">>)

SqlInsertB == Str(<<"I", "N", "S", "E", "R", "T", " ", "I", "N", "T", "O", " ", "b", " ", "V", "A", "L", "U", "E", "S", " ", "(", "1", ")">>)

\* The statements of one analysis window: two of one shape that differ in a
\* literal, and one of another type.
WindowArgs ==
    { [sql |-> SqlSelectA1, params |-> "None", many |-> FALSE, context |-> "ctx1"],
      [sql |-> SqlSelectA2, params |-> "None", many |-> FALSE, context |-> "ctx1"],
      [sql |-> SqlInsertB,  params |-> "None", many |-> FALSE, context |-> "ctx1"] }

\* A statement up to the right-hand side of its equality comparison.
SqlEqPrefix == <<"S", "E", "L", "E", "C", "T", " ", "*", " ", "F", "R", "O", "M", " ", "t", " ", "W", "H", "E", "R", "E", " ", "a", " ", "=", " ">>

\* Right-hand sides: the positional-parameter marker, integer literals and
\* single-quoted string literals of one, two and no characters.
EqLiterals ==
    { <<"%", "s">>, <<"1">>, <<"2", "3">>,
      <<"'", "x", "'">>, <<"'", "x", "y", "'">>, <<"'", "'">> }

\* The statement that compares a with the literal lit.
EqStatement(lit) == Str(SqlEqPrefix \o lit)

\* A statement up to the contents of its IN list.
SqlInPrefix == <<"S", "E", "L", "E", "C", "T", " ", "*", " ", "F", "R", "O", "M", " ", "t", " ", "W", "H", "E", "R", "E", " ", "a", " ", "I", "N", " ", "(">>

\* Contents of an IN list.
InLists == { <<"1">>, <<"1", ",", " ", "2">>, <<"%", "s", ",", " ", "%", "s", ",", " ", "%", "s">> }

\* The statement whose IN list holds list.
InStatement(list) == Str(SqlInPrefix \o list \o <<")">>)

\* EqStatement of 1 with other whitespace runs.
SqlEqSpaced == Str(<<"S", "E", "L", "E", "C", "T", " ", "*", " ", " ", "F", "R", "O", "M", " ", "t", "\n", " ", "W", "H", "E", "R", "E", " ", "a", " ", "=", " ", " ", "1">>)

SqlSelectUsers == Str(<<"S", "E", "L", "E", "C", "T", " ", "*", " ", "F", "R", "O", "M", " ", "u", "s", "e", "r", "s">>)

SqlInsertPadded == Str(<<" ", " ", "i", "n", "s", "e", "r", "t", " ", "i", "n", "t", "o", " ", "t", " ", "v", "a", "l", "u", "e", "s", " ", "(", "1", ")">>)

SqlExplain == Str(<<"E", "X", "P", "L", "A", "I", "N", " ", "S", "E", "L", "E", "C", "T", " ", "1">>)

SqlComment == Str(<<"-", "-", " ", "c", "\n", "S", "E", "L", "E", "C", "T", " ", "1">>)

\* A statement of the T-SQL dialect whose leading keyword is UPDATETEXT.
SqlUpdateText == Str(<<"U", "P", "D", "A", "T", "E", "T", "E", "X", "T", " ", "t", ".", "c", " ", "p", " ", "0", " ", "0", " ", "'", "x", "'">>)

SqlJoin == Str(<<"S", "E", "L", "E", "C", "T", " ", "*", " ", "F", "R", "O", "M", " ", "u", "s", "e", "r", "s", " ", "u", " ", "J", "O", "I", "N", " ", "o", "r", "d", "e", "r", "s", " ", "o", " ", "O", "N", " ", "u", ".", "i", "d", "=", "o", ".", "u", "s", "e", "r", "_", "i", "d">>)

SqlSelfJoin == Str(<<"s", "e", "l", "e", "c", "t", " ", "*", " ", "f", "r", "o", "m", " ", "T", " ", "x", " ", "j", "o", "i", "n", " ", "t", " ", "y", " ", "o", "n", " ", "x", ".", "i", "=", "y", ".", "i">>)

SqlFromSubquery == Str(<<"S", "E", "L", "E", "C", "T", " ", "*", " ", "F", "R", "O", "M", " ", "(", "S", "E", "L", "E", "C", "T", " ", "1", ")", " ", "s">>)

SqlJoinSubquery == Str(<<"S", "E", "L", "E", "C", "T", " ", "*", " ", "F", "R", "O", "M", " ", "a", " ", "J", "O", "I", "N", " ", "(", "S", "E", "L", "E", "C", "T", " ", "1", ")", " ", "b">>)

\* The statement texts the host issues.
Texts ==
    {EqStatement(lit) : lit \in EqLiterals} \cup
    {InStatement(list) : list \in InLists} \cup
    {SqlEqSpaced, SqlSelectUsers, SqlInsertPadded, SqlExplain, SqlComment,
     SqlUpdateText, SqlJoin, SqlSelfJoin, SqlFromSubquery, SqlJoinSubquery}

TextArgs ==
    {[sql |-> text, params |-> "None", many |-> FALSE, context |-> "ctx1"] :
        text \in Texts}

\* What the wrapped executor does with a call: it returns a result, raises
\* an error of class Exception, or raises one that is a BaseException only
\* (KeyboardInterrupt, SystemExit, asyncio.CancelledError).
Return(v) == [kind |-> "return", val |-> v]

Raise(e) == [kind |-> "raise", val |-> e]

NoOutcome == [kind |-> "none", val |-> "None"]

Outcomes == {Return("rows"), Raise("DatabaseError"), Raise("KeyboardInterrupt")}

\* isinstance(e, Exception): what "except Exception" catches.
IsException(e) == e \in {"DatabaseError", "AttributeError"}

\* Python truthiness of a params value: None and the empty containers are
\* falsy.
Truthy(params) == params \notin {"None", "()", "[]", "{}"}

(* ------------------------------- state -------------------------------- *)

VARIABLES
    queries,         \* self.queries: the log
    active,          \* self._active
    start_time,      \* self._start_time
    clock,           \* the clock perf_counter() and datetime.now() read
    pc,              \* per thread: "idle", "pass" (inactive path, executor
                     \* running) or "exec" (active path, executor running)
    captured_query,  \* per thread: __call__'s local captured_query
    start,           \* per thread: __call__'s local start
    call,            \* per thread: the arguments of its running hook invocation
    wasActive,       \* per thread: self._active as its latest invocation found it
    ret,             \* the hook invocation the latest step completed, if any
    hookCount,       \* hook invocations made while active since
                     \* start_collection(); -1 once one of them overlapped
                     \* another invocation or clear() ran
    result,          \* what the latest aggregation call returned
    lastOp,          \* the operation that took the latest step
    repeated         \* whether the operation before it was the same one

vars == <<queries, active, start_time, clock, pc, captured_query, start, call,
          wasActive, ret, result, hookCount, lastOp, repeated>>

\* @dataclass CapturedQuery
CapturedQuery(sql, params, duration, timestamp, stack_trace, query_type, table_names) ==
    [sql |-> sql, params |-> params, duration |-> duration,
     timestamp |-> timestamp, stack_trace |-> stack_trace,
     query_type |-> query_type, table_names |-> table_names,
     status |-> "ok", exception |-> "None"]

\* The value of captured_query and of call while no invocation has set them.
NoQuery == CapturedQuery(<<>>, "()", 0, 0, <<>>, "OTHER", <<>>)

NoCall == [sql |-> NotAStr, params |-> "None", many |-> FALSE, context |-> "None"]

\* A completed hook invocation: the arguments it was given, whether it found
\* the collector active, the calls the executor received, what the executor
\* returned or raised and what the hook's caller got back.
Report(a, foundActive, execArgs, execOut, observed) ==
    [call |-> a, wasActive |-> foundActive, execArgs |-> execArgs,
     execOut |-> execOut, observed |-> observed]

NoReport == Report(NoCall, FALSE, <<>>, NoOutcome, NoOutcome)

\* What an aggregation call returned: a number (get_total_duration,
\* get_query_count) or a dict of groups (the others), tagged with the call.
Result(op, num, groups) == [op |-> op, num |-> num, groups |-> groups]

NoResult == Result("none", 0, <<>>)

\* QueryCollector.__init__
Init ==
    /\ queries = <<>>
    /\ active = FALSE
    /\ start_time = -1
    /\ clock = 0
    /\ pc = [t \in Threads |-> "idle"]
    /\ captured_query = [t \in Threads |-> NoQuery]
    /\ start = [t \in Threads |-> 0]
    /\ call = [t \in Threads |-> NoCall]
    /\ wasActive = [t \in Threads |-> FALSE]
    /\ ret = NoReport
    /\ result = NoResult
    /\ hookCount = 0
    /\ lastOp = "init"
    /\ repeated = FALSE

(* ------------------------------ the hook ------------------------------ *)

\* The call  execute(sql, params, many, context)  of lines 81 and 106: the
\* arguments the executor receives.
ExecuteCall(a) ==
    [sql |-> a.sql, params |-> a.params, many |-> a.many, context |-> a.context]

\* traceback.extract_stack()[:-2], formatted: the frames of the hook's
\* caller, one call site for every invocation.
StackTrace == <<"caller.py:1 in view">>

\* Lines 83-103: the CapturedQuery built before the executor is called, at
\* clock reading now.
NewCapturedQuery(a, now) ==
    CapturedQuery(a.sql.chars,
                  IF Truthy(a.params) THEN a.params ELSE "()",
                  0, now, StackTrace,
                  _extract_query_type(a.sql.chars),
                  _extract_table_names(a.sql.chars))

\* Lines 105-112: the try block's effect on captured_query once the
\* executor has come back with out.  "except Exception" does not catch an
\* error that is a BaseException only.
AfterTry(cq, out) ==
    IF out.kind = "return" THEN [cq EXCEPT !.status = "ok"]
    ELSE IF IsException(out.val)
         THEN [cq EXCEPT !.status = "error", !.exception = out.val]
         ELSE cq

\* A finally block that puts the record in front of the log.
FinallyPrepends(log, cq, begun, now) ==
    <<[cq EXCEPT !.duration = now - begun]>> \o log

\* A finally block that appends the record and sets the duration afterwards
\* on a copy: the log's record keeps the duration it was created with.
FinallyAppendsFirst(log, cq, begun, now) == Append(log, cq)

\* Lines 113-116: the finally block: the duration is set, then the record
\* is appended to the log.
Finally(log, cq, begun, now) ==
    Append(log, [cq EXCEPT !.duration = now - begun])

\* What __call__ hands to its caller once the executor has come back with
\* out: "return result" (lines 81, 108) or the error raised again (line 112,
\* or passing through the finally block).
HookOutcome(out) == out

\* hookCount after a hook invocation begins on thread t.
CountHook(t) ==
    IF ~active THEN hookCount
    ELSE IF hookCount = -1 \/ \E u \in Threads \ {t} : pc[u] # "idle" THEN -1
    ELSE hookCount + 1

\* The hook without its early return.
PassThroughNever == FALSE

\* Line 80: "if not self._active".
PassThrough == ~active

\* __call__, lines 80-106, up to the executor being entered.
HookCall(t, a, bound) ==
    /\ pc[t] = "idle"
    /\ wasActive' = [wasActive EXCEPT ![t] = active]
    /\ hookCount' = CountHook(t)
    /\ lastOp' = "hook"
    /\ repeated' = FALSE
    /\ IF PassThrough
       THEN \* lines 80-81
            /\ pc' = [pc EXCEPT ![t] = "pass"]
            /\ call' = [call EXCEPT ![t] = a]
            /\ ret' = NoReport
            /\ UNCHANGED <<clock, captured_query, start>>
       ELSE IF ~IsStr(a.sql)
       THEN \* line 88: sql.strip() raises AttributeError, nothing catches it
            /\ hookCount < bound
            /\ ret' = Report(a, TRUE, <<>>, NoOutcome, Raise("AttributeError"))
            /\ UNCHANGED <<pc, call, clock, captured_query, start>>
       ELSE \* lines 83-106
            /\ clock < bound
            /\ captured_query' = [captured_query EXCEPT ![t] = NewCapturedQuery(a, clock)]
            /\ start' = [start EXCEPT ![t] = clock]
            /\ clock' = clock + 1
            /\ pc' = [pc EXCEPT ![t] = "exec"]
            /\ call' = [call EXCEPT ![t] = a]
            /\ ret' = NoReport
    /\ UNCHANGED <<queries, active, start_time, result>>

\* __call__, lines 81 and 106-116: the executor, called with
\* ExecuteCall(call[t]), comes back with out.
ExecFinish(t, out) ==
    /\ pc[t] \in {"pass", "exec"}
    /\ pc' = [pc EXCEPT ![t] = "idle"]
    /\ call' = [call EXCEPT ![t] = NoCall]
    /\ ret' = Report(call[t], wasActive[t], <<ExecuteCall(call[t])>>, out,
                     HookOutcome(out))
    /\ lastOp' = "hook"
    /\ repeated' = FALSE
    /\ captured_query' = [captured_query EXCEPT ![t] = NoQuery]
    /\ start' = [start EXCEPT ![t] = 0]
    /\ IF pc[t] = "pass"
       THEN UNCHANGED <<queries, clock>>
       ELSE /\ queries' = Finally(queries, AfterTry(captured_query[t], out), start[t], clock)
            /\ clock' = clock + 1
    /\ UNCHANGED <<active, start_time, wasActive, hookCount, result>>

(* -------------------------- session control --------------------------- *)

\* A clear() that leaves the list as it is.
ListClearKeeps(log) == log

\* list.clear()
ListClear(log) == <<>>

\* A start_collection() that flips the flag.
ActiveAfterStartFlipped == ~active

\* Line 120: the flag start_collection() leaves.
ActiveAfterStart == TRUE

\* QueryCollector.start_collection
StartCollection ==
    /\ active' = ActiveAfterStart
    /\ start_time' = clock
    /\ queries' = ListClear(queries)
    /\ hookCount' = IF \E t \in Threads : pc[t] # "idle" THEN -1 ELSE 0
    /\ ret' = NoReport
    /\ lastOp' = "start"
    /\ repeated' = (lastOp = "start")
    /\ UNCHANGED <<clock, pc, captured_query, start, call, wasActive, result>>

\* QueryCollector.stop_collection
StopCollection ==
    /\ active' = FALSE
    /\ ret' = NoReport
    /\ lastOp' = "stop"
    /\ repeated' = (lastOp = "stop")
    /\ UNCHANGED <<queries, start_time, clock, pc, captured_query, start, call,
                   wasActive, hookCount, result>>

\* QueryCollector.clear
Clear ==
    /\ queries' = ListClear(queries)
    /\ hookCount' = -1
    /\ ret' = NoReport
    /\ lastOp' = "clear"
    /\ repeated' = (lastOp = "clear")
    /\ UNCHANGED <<active, start_time, clock, pc, captured_query, start, call,
                   wasActive, result>>

(* ---------------------------- aggregation ----------------------------- *)

\* A Python dict, in insertion order: a sequence of [key, val] records with
\* distinct keys.
DictHas(d, k) == \E i \in 1..Len(d) : d[i].key = k

DictGet(d, k) == d[CHOOSE i \in 1..Len(d) : d[i].key = k].val

\* A dict that puts a new key in front.
DictSetFront(d, k, v) ==
    IF DictHas(d, k)
    THEN [i \in 1..Len(d) |-> IF d[i].key = k THEN [key |-> k, val |-> v] ELSE d[i]]
    ELSE <<[key |-> k, val |-> v]>> \o d

\* d[k] = v for a key that is new, d[k] = v in place for one that is not.
DictSet(d, k, v) ==
    IF DictHas(d, k)
    THEN [i \in 1..Len(d) |-> IF d[i].key = k THEN [key |-> k, val |-> v] ELSE d[i]]
    ELSE Append(d, [key |-> k, val |-> v])

\* A key that is the raw text.
SqlKeyRaw(query) == query.sql

\* Line 151: sql_key = query.sql.strip()
SqlKey(query) == strip(query.sql, Whitespace)

RECURSIVE DuplicatesLoop(_, _, _, _)
\* Lines 150-157: the loop of get_duplicate_queries from entry i on.
DuplicatesLoop(log, i, duplicates, seen) ==
    IF i > Len(log) THEN duplicates
    ELSE LET query   == log[i]
             sql_key == SqlKey(query)
         IN  IF DictHas(seen, sql_key)
             THEN LET seeded == IF DictHas(duplicates, sql_key) THEN duplicates
                                ELSE DictSet(duplicates, sql_key, <<DictGet(seen, sql_key)>>)
                  IN  DuplicatesLoop(log, i + 1,
                          DictSet(seeded, sql_key, Append(DictGet(seeded, sql_key), query)),
                          seen)
             ELSE DuplicatesLoop(log, i + 1, duplicates, DictSet(seen, sql_key, query))

\* QueryCollector.get_duplicate_queries
get_duplicate_queries(log) == DuplicatesLoop(log, 1, <<>>, <<>>)

\* The host's threads issue statements while the session is controlled.
Next ==
    \/ \E t \in Threads, a \in HookArgs : HookCall(t, a, MaxClock)
    \/ \E t \in Threads, out \in Outcomes : ExecFinish(t, out)
    \/ StartCollection
    \/ StopCollection
    \/ Clear

Spec == Init /\ [][Next]_vars

\* One session thread issues the statements of an analysis window.
SessionThread == "t1"

SessionOutcomes == {Return("rows"), Raise("DatabaseError")}

SessionNext ==
    \/ \E a \in SessionArgs : HookCall(SessionThread, a, MaxSessionClock)
    \/ \E out \in SessionOutcomes : ExecFinish(SessionThread, out)
    \/ StartCollection
    \/ StopCollection
    \/ Clear

SessionSpec == Init /\ [][SessionNext]_vars

RECURSIVE PatternsLoop(_, _, _)
\* Lines 165-169: the loop of get_similar_queries from entry i on.
PatternsLoop(log, i, patterns) ==
    IF i > Len(log) THEN patterns
    ELSE LET query   == log[i]
             pattern == get_base_query(query.sql)
             listed  == IF DictHas(patterns, pattern) THEN patterns
                        ELSE DictSet(patterns, pattern, <<>>)
         IN  PatternsLoop(log, i + 1,
                 DictSet(listed, pattern, Append(DictGet(listed, pattern), query)))

\* A filter that asks for more than two queries.
MoreThanTwoQueries(v) == Len(v) > 2

\* Line 172: len(v) > 1
MultipleQueries(v) == Len(v) > 1

\* QueryCollector.get_similar_queries
get_similar_queries(log) ==
    LET Kept(item) == MultipleQueries(item.val)
    IN  SelectSeq(PatternsLoop(log, 1, <<>>), Kept)

RECURSIVE SumDurations(_, _)
\* sum(...) of line 130 over the entries from i on.
SumDurations(log, i) ==
    IF i > Len(log) THEN 0 ELSE log[i].duration + SumDurations(log, i + 1)

\* QueryCollector.get_total_duration
get_total_duration(log) == SumDurations(log, 1)

\* QueryCollector.get_query_count
get_query_count(log) == Len(log)

\* A key that files every query under OTHER.
TypeKeyOther(query) == "OTHER"

\* Lines 139-141: the key of a query in by_type.
TypeKey(query) == query.query_type

RECURSIVE ByTypeLoop(_, _, _)
\* Lines 138-141: the loop of get_queries_by_type from entry i on.
ByTypeLoop(log, i, by_type) ==
    IF i > Len(log) THEN by_type
    ELSE LET query  == log[i]
             listed == IF DictHas(by_type, TypeKey(query)) THEN by_type
                       ELSE DictSet(by_type, TypeKey(query), <<>>)
         IN  ByTypeLoop(log, i + 1,
                 DictSet(listed, TypeKey(query),
                         Append(DictGet(listed, TypeKey(query)), query)))

\* QueryCollector.get_queries_by_type
get_queries_by_type(log) == ByTypeLoop(log, 1, <<>>)

\* A scan that consumes the list it iterates over.
ScannedDrained(log) == <<>>

\* Lines 130, 134, 139, 150 and 165: the list after "for query in
\* self.queries" or len(self.queries) has read it.
Scanned(log) == log

\* An aggregation operation op hands res to its caller: the collector's
\* fields are read, none is assigned.
Aggregate(op, res) ==
    /\ result' = res
    /\ queries' = Scanned(queries)
    /\ ret' = NoReport
    /\ lastOp' = op
    /\ repeated' = (lastOp = op)
    /\ UNCHANGED <<active, start_time, clock, pc, captured_query, start, call,
                   wasActive, hookCount>>

\* A call of QueryCollector.get_total_duration
GetTotalDuration ==
    Aggregate("get_total_duration",
              Result("get_total_duration", get_total_duration(queries), <<>>))

\* A call of QueryCollector.get_query_count
GetQueryCount ==
    Aggregate("get_query_count",
              Result("get_query_count", get_query_count(queries), <<>>))

\* A call of QueryCollector.get_queries_by_type
GetQueriesByType ==
    Aggregate("get_queries_by_type",
              Result("get_queries_by_type", 0, get_queries_by_type(queries)))

\* A call of QueryCollector.get_duplicate_queries
GetDuplicateQueries ==
    Aggregate("get_duplicate_queries",
              Result("get_duplicate_queries", 0, get_duplicate_queries(queries)))

\* A call of QueryCollector.get_similar_queries
GetSimilarQueries ==
    Aggregate("get_similar_queries",
              Result("get_similar_queries", 0, get_similar_queries(queries)))

\* One analysis window: start_collection(), then the statements of
\* WindowArgs one after the other, with aggregation calls at any moment.
WindowNext ==
    \/ StartCollection
    \/ \E a \in WindowArgs : HookCall(SessionThread, a, MaxWindowClock)
    \/ ExecFinish(SessionThread, Return("rows"))
    \/ GetTotalDuration
    \/ GetQueryCount
    \/ GetQueriesByType
    \/ GetDuplicateQueries
    \/ GetSimilarQueries

WindowSpec == Init /\ [][WindowNext]_vars

\* One analysis window in which the host issues the statements of Texts.
TextNext ==
    \/ StartCollection
    \/ \E a \in TextArgs : HookCall(SessionThread, a, MaxTextClock)
    \/ ExecFinish(SessionThread, Return("rows"))

TextSpec == Init /\ [][TextNext]_vars

(* ------------------------------- claims ------------------------------- *)

AllIdle == \A t \in Threads : pc[t] = "idle"

Last(log) == log[Len(log)]

\* The latest step completed a hook invocation that found the collector active.
ActiveHookDone == ret # NoReport /\ ret.wasActive

\* C1: after non-overlapping hook invocations made while the collector is
\* active, with no clear() since start_collection(), the log is as long as
\* the number of those invocations, whether they returned or raised.
C1_LogLengthIsHookCount ==
    (AllIdle /\ hookCount # -1) => Len(queries) = hookCount

\* C2: when the wrapped execution raises while the collector is active, the
\* hook's caller gets the same error, and the step appends exactly one
\* entry, of status error, that holds the error.
C2_RaiseRecordedAndReraised ==
    [][(ret' # NoReport /\ ret'.wasActive /\ ret'.execOut.kind = "raise") =>
          /\ ret'.observed = ret'.execOut
          /\ Len(queries') = Len(queries) + 1
          /\ SubSeq(queries', 1, Len(queries)) = queries
          /\ Last(queries').status = "error"
          /\ Last(queries').exception = ret'.execOut.val]_vars

\* C3: the entry of a wrapped execution has status error if and only if the
\* execution raised, whatever it raised, and every entry of the log holds an
\* exception if and only if its status is error.
C3_ErrorStatusIffRaised ==
    /\ (ActiveHookDone /\ ret.execOut # NoOutcome) =>
          /\ queries # <<>>
          /\ (Last(queries).status = "error" <=> ret.execOut.kind = "raise")
    /\ \A i \in 1..Len(queries) :
          queries[i].exception # "None" <=> queries[i].status = "error"

\* C4: a hook invocation, active or not, calls the next executor exactly
\* once, with the arguments it was given, and hands the executor's result
\* to its caller.
C4_ExecutorCalledOnceTransparently ==
    ret # NoReport =>
        /\ ret.execArgs = <<ret.call>>
        /\ ret.observed = ret.execOut

\* C5 as stated: while the collector is inactive the log is empty.
C5_InactiveLogIsEmpty == ~active => Len(queries) = 0

\* C5 as amended: a hook invocation that finds the collector inactive
\* creates no CapturedQuery and leaves the log as it was, at its start
\* and at its end.
C5_InactiveHookLeavesLog ==
    [][\A t \in Threads :
          (\/ pc[t] = "idle" /\ pc'[t] # "idle" /\ ~wasActive'[t]
           \/ pc[t] # "idle" /\ pc'[t] = "idle" /\ ~wasActive[t]) =>
              /\ queries' = queries
              /\ captured_query'[t] = NoQuery /\ captured_query[t] = NoQuery]_vars

\* An inactive hook invocation has completed on a log that is not empty.
C5_Witness ==
    ret # NoReport /\ ~ret.wasActive /\ ~active /\ Len(queries) > 0

\* C6: a new collector is inactive with an empty log; start_collection()
\* leaves it active with an empty log, stop_collection() inactive with the
\* log as it was, clear() with an empty log and the flag as it was.
C6_LifecycleEffects ==
    /\ lastOp = "init" => (~active /\ queries = <<>>)
    /\ [][/\ lastOp' = "start" => (active' /\ queries' = <<>>)
          /\ lastOp' = "stop" => (~active' /\ queries' = queries)
          /\ lastOp' = "clear" => (queries' = <<>> /\ active' = active)]_vars

\* stop_collection() has just run and left a log that is not empty, while a
\* wrapped execution was under way.
C6_Witness ==
    /\ lastOp = "stop" /\ ~active /\ queries # <<>>
    /\ \E t \in Threads : pc[t] = "exec"

\* C7: a session-control operation called right after itself changes
\* neither the flag nor the log, and stop_collection() on an inactive
\* collector changes neither.
C7_Idempotent ==
    [][/\ (repeated' /\ lastOp' \in {"start", "stop", "clear"}) =>
              (active' = active /\ queries' = queries)
       /\ (lastOp' = "stop" /\ ~active) =>
              (active' = active /\ queries' = queries)]_vars

\* start_collection() has run twice in a row while a wrapped execution was
\* under way.
C7_Witness ==
    repeated /\ lastOp = "start" /\ \E t \in Threads : pc[t] = "exec"

C9_ClassificationFailureContained ==
    (ActiveHookDone /\ ~IsStr(ret.call.sql)) =>
        /\ Len(ret.execArgs) = 1
        /\ ret.observed = ret.execOut
        /\ queries # <<>>
        /\ Last(queries).query_type = "OTHER"

\* The entries of log whose trimmed text is key, in log order.
WithTrimmedText(log, key) ==
    LET Same(q) == strip(q.sql, Whitespace) = key IN SelectSeq(log, Same)

\* C10: get_duplicate_queries() reports a group for a trimmed text if and
\* only if two or more entries of the log have it, and the group holds all
\* entries with that text, in log order.
C10_DuplicatesByTrimmedText ==
    LET d == get_duplicate_queries(queries) IN
    /\ \A i, j \in 1..Len(d) : d[i].key = d[j].key => i = j
    /\ \A i \in 1..Len(d) :
          /\ d[i].val = WithTrimmedText(queries, d[i].key)
          /\ Len(d[i].val) >= 2
    /\ \A i \in 1..Len(queries) :
          LET key == strip(queries[i].sql, Whitespace) IN
          Len(WithTrimmedText(queries, key)) >= 2 => DictHas(d, key)

\* Three entries: two of equal trimmed text, with different raw text and
\* parameters, are reported as one group; the third, one character apart,
\* is in none.
C10_Witness ==
    LET d == get_duplicate_queries(queries) IN
    /\ Len(queries) = 3
    /\ Len(d) = 1
    /\ Len(d[1].val) = 2
    /\ d[1].val[1].sql # d[1].val[2].sql
    /\ d[1].val[1].params # d[1].val[2].params

\* The position of entry e in log (the entries of a log differ in timestamp).
IndexOf(log, e) == CHOOSE k \in 1..Len(log) : log[k] = e

\* C11 as stated: the groups of get_duplicate_queries() are in the order in
\* which their texts were first seen in the log.
C11_GroupsInFirstSeenOrder ==
    LET d == get_duplicate_queries(queries) IN
    \A i, j \in 1..Len(d) :
        i < j <=> IndexOf(queries, d[i].val[1]) < IndexOf(queries, d[j].val[1])

\* C11 as amended: the groups of get_duplicate_queries() are in the order in
\* which their texts were seen for the second time.
C11_GroupsInFirstRepeatOrder ==
    LET d == get_duplicate_queries(queries) IN
    \A i, j \in 1..Len(d) :
        i < j <=> IndexOf(queries, d[i].val[2]) < IndexOf(queries, d[j].val[2])

\* Two groups are reported, and the text of the first was first seen after
\* the text of the second.
C11_Witness ==
    LET d == get_duplicate_queries(queries) IN
    /\ Len(d) = 2
    /\ IndexOf(queries, d[1].val[1]) > IndexOf(queries, d[2].val[1])

\* The entries of log whose normalized shape is shape, in log order.
WithShape(log, shape) ==
    LET Same(q) == get_base_query(q.sql) = shape IN SelectSeq(log, Same)

\* The entries of log that are  SELECT * FROM a WHERE id = <integer>.
IdSelects(log) ==
    LET ById(q) == q.sql \in {SqlSelectA1.chars, SqlSelectA2.chars}
    IN  SelectSeq(log, ById)

DifferOnlyInLiterals(s1, s2) ==
    \/ \E l1, l2 \in EqLiterals :
          s1 = EqStatement(l1).chars /\ s2 = EqStatement(l2).chars
    \/ \E l1, l2 \in InLists :
          s1 = InStatement(l1).chars /\ s2 = InStatement(l2).chars
    \/ SplitJoin(s1) = SplitJoin(s2)

\* C13: two statements of the log that differ only in the right-hand side
\* of an equality comparison (a parameter marker, an integer literal or a
\* single-quoted string literal of any length), only in the contents of an
\* IN list or only in whitespace runs have the same normalized shape.
C13_SameShapeUpToLiterals ==
    \A i, j \in 1..Len(queries) :
        DifferOnlyInLiterals(queries[i].sql, queries[j].sql) =>
            get_base_query(queries[i].sql) = get_base_query(queries[j].sql)

\* The entries of log whose query_type is type, in log order.
WithType(log, type) ==
    LET Same(q) == q.query_type = type IN SelectSeq(log, Same)

RECURSIVE SumSizes(_, _)
\* The sizes of the groups of g from group i on, added up.
SumSizes(g, i) ==
    IF i > Len(g) THEN 0 ELSE Len(g[i].val) + SumSizes(g, i + 1)

\* C14: get_queries_by_type() partitions the log: every entry is in exactly
\* one group, the one keyed by its query_type; no group is empty; a group
\* holds its entries in log order; the sizes add up to get_query_count().
C14_ByTypePartitionsLog ==
    LET g == get_queries_by_type(queries) IN
    /\ \A k \in 1..Len(queries) :
          LET holding == {i \in 1..Len(g) :
                            \E m \in 1..Len(g[i].val) : g[i].val[m] = queries[k]}
          IN  /\ Cardinality(holding) = 1
              /\ \A i \in holding : g[i].key = queries[k].query_type
    /\ \A i, j \in 1..Len(g) : g[i].key = g[j].key => i = j
    /\ \A i \in 1..Len(g) :
          /\ g[i].val # <<>>
          /\ g[i].val = WithType(queries, g[i].key)
    /\ SumSizes(g, 1) = get_query_count(queries)

\* A SELECT, an INSERT and a SELECT: two groups, the SELECTs in log order.
C14_Witness ==
    LET g == get_queries_by_type(queries) IN
    /\ Len(queries) = 3
    /\ queries[2].query_type = "INSERT"
    /\ Len(g) = 2
    /\ g[1].val = <<queries[1], queries[3]>>
    /\ g[2].val = <<queries[2]>>

\* C15: the step that completes a hook invocation begun while the collector
\* was active appends exactly one entry to the log, whatever interleaved
\* with the invocation, and the step that begins an invocation appends none.
C15_ExactlyOneAppend ==
    [][/\ (ret' # NoReport /\ ret'.wasActive) =>
             /\ Len(queries') = Len(queries) + 1
             /\ SubSeq(queries', 1, Len(queries)) = queries
       /\ (lastOp' = "hook" /\ ret' = NoReport) => queries' = queries]_vars

\* The clock value at which the wrapped execution of entry e completed.
CompletedAt(e) == e.timestamp + e.duration

C17_PopulatedThenImmutable ==
    [][\/ queries' = queries
       \/ queries' = <<>>
       \/ /\ ret' # NoReport
          /\ Len(queries') = Len(queries) + 1
          /\ SubSeq(queries', 1, Len(queries)) = queries
          /\ LET e == Last(queries') IN
             /\ e.duration = clock - e.timestamp
             /\ e.duration >= 0
             /\ e.status \in {"ok", "error"}
             /\ ret'.execOut.kind = "return" =>
                   e.status = "ok" /\ e.exception = "None"
             /\ e.status = "error" =>
                   ret'.execOut.kind = "raise" /\ e.exception = ret'.execOut.val]_vars

\* An entry with status error was appended, then a second entry, then
\* stop_collection() ran.
C17_Witness ==
    /\ Len(queries) = 2
    /\ queries[1].status = "error"
    /\ queries[1].exception = "DatabaseError"
    /\ queries[1].duration > 0
    /\ lastOp = "stop"

\* The names of the aggregation operations.
AggregationOps ==
    {"get_total_duration", "get_query_count", "get_queries_by_type",
     "get_duplicate_queries", "get_similar_queries"}

\* C18: a call of an aggregation operation leaves the log and the active
\* flag as they are, and a call that directly follows a call of the same
\* operation returns the same result.
C18_AggregationReadOnly ==
    [][lastOp' \in AggregationOps =>
          /\ queries' = queries
          /\ active' = active
          /\ lastOp = lastOp' => result' = result]_vars

\* get_similar_queries() was called twice in a row on a log of three
\* entries and reported a group.
C18_Witness ==
    /\ lastOp = "get_similar_queries"
    /\ repeated
    /\ Len(queries) = 3
    /\ Len(result.groups) = 1
    /\ active

\* The letters of the alphabet, in both cases.
Letters == {LowerChars[i] : i \in 1..Len(LowerChars)} \cup
           {UpperChars[i] : i \in 1..Len(UpperChars)}

\* The leading keyword of a statement: the letters with which its trimmed,
\* uppercased text begins.
LeadingKeyword(sql) ==
    LET text == upper(strip(sql, Whitespace))
    IN  SubSeq(text, 1, RunEnd(text, 1, Letters) - 1)

\* The keywords of the classification with the types they stand for.
TypeOfKeyword ==
    { <<KW_SELECT, "SELECT">>, <<KW_INSERT, "INSERT">>, <<KW_UPDATE, "UPDATE">>,
      <<KW_DELETE, "DELETE">>, <<KW_CREATE, "CREATE">>, <<KW_DROP, "DROP">>,
      <<KW_ALTER, "ALTER">> }

\* C19: the query_type of every entry of the log is the type of its
\* statement's leading keyword if that is one of the seven keywords, and
\* OTHER if it is not.
C19_TypeIsLeadingKeyword ==
    \A i \in 1..Len(queries) :
        LET word == LeadingKeyword(queries[i].sql) IN
        /\ \A kt \in TypeOfKeyword :
              queries[i].query_type = kt[2] <=> word = kt[1]
        /\ queries[i].query_type = "OTHER" <=>
              \A kt \in TypeOfKeyword : word # kt[1]

\* C20: no table name of an entry of the log begins with "(", whichever
\* clause marker produced it; the names are lowercase and no name occurs
\* twice.
C20_NoParenthesizedTable ==
    \A i \in 1..Len(queries) :
        LET names == queries[i].table_names IN
        /\ \A k \in 1..Len(names) :
              /\ ~startswith(names[k], <<"(">>)
              /\ names[k] = lower(names[k])
        /\ \A k, m \in 1..Len(names) : names[k] = names[m] => k = m

====
